---- MODULE Spec2Model ----
(***************************************************************************)
(* Model of wrangler's adhoc migration descriptor compiler                 *)
(* (AdhocMigration::into_migrations, src/cli/mod.rs) and of the local dev  *)
(* server's configuration resolver (ServerConfig::new,                     *)
(* src/commands/dev/server_config/mod.rs).                                 *)
(*                                                                         *)
(* Option<T> is modelled as a sequence of length 0 (None) or 1 (Some(x)).  *)
(* Vec<T> is modelled as a sequence.                                       *)
(***************************************************************************)
EXTENDS Integers, Sequences, FiniteSets, TLC

VARIABLES pc, input, result, srvPc, args, env, bindCalls, bindAttempts, hostNewCalls, srvResult

vars == <<pc, input, result, srvPc, args, env, bindCalls, bindAttempts, hostNewCalls, srvResult>>

migVars == <<pc, input, result>>

srvVars == <<srvPc, args, env, bindCalls, bindAttempts, hostNewCalls, srvResult>>

(***************************************************************************)
(* Bounds and value universes                                              *)
(***************************************************************************)

\* Largest total number of values carried by the four class flags.
MaxValues == 6

\* Class and script names the flags may carry.
Names == {"A", "B"}

\* Migration tag strings the tag flags may carry.
TagNames == {"t1", "t2"}

None == <<>>

Some(x) == <<x>>

IsSome(o) == Len(o) = 1

IsNone(o) == Len(o) = 0

Option(S) == {None} \cup {Some(x) : x \in S}

SeqsUpTo(S, n) == UNION {[1..m -> S] : m \in 0..n}

(***************************************************************************)
(* AdhocMigration::into_migrations                                         *)
(***************************************************************************)

\* slice::chunks_exact(n): the consecutive full chunks of n elements; the
\* remainder of fewer than n elements at the end is left out.
ChunksExact(s, n) == [i \in 1..(Len(s) \div n) |-> SubSeq(s, (i - 1) * n + 1, i * n)]

\* A buggy pairing that reads the chunk backwards.
RenameClassSwapped(chunk) == [from |-> chunk[2], to |-> chunk[1]]

\* The closure of the rename map: `if let [from, to] = chunk`.
RenameClassOf(chunk) == [from |-> chunk[1], to |-> chunk[2]]

\* A buggy grouping that follows the field order of the struct literal
\* (from, from_script, to) instead of the flag's value order.
TransferClassFieldOrder(chunk) == [from |-> chunk[1], from_script |-> chunk[2], to |-> chunk[3]]

\* The closure of the transfer map: `if let [from_script, from, to] = chunk`.
TransferClassOf(chunk) == [from |-> chunk[2], from_script |-> chunk[1], to |-> chunk[3]]

renamed_classes(rename_class) == [i \in 1..Len(ChunksExact(rename_class, 2)) |-> RenameClassOf(ChunksExact(rename_class, 2)[i])]

transferred_classes(transfer_class) == [i \in 1..Len(ChunksExact(transfer_class, 3)) |-> TransferClassOf(ChunksExact(transfer_class, 3)[i])]

\* The `unreachable!` arms: a chunk that does not match the slice pattern.
ChunkMismatch(am) ==
    \/ \E i \in 1..Len(ChunksExact(am.rename_class, 2)) : Len(ChunksExact(am.rename_class, 2)[i]) # 2
    \/ \E i \in 1..Len(ChunksExact(am.transfer_class, 3)) : Len(ChunksExact(am.transfer_class, 3)[i]) # 3

\* A buggy assembly that crosses the new and deleted lists.
DurableObjectsMigrationCrossed(am) ==
    [new_classes |-> am.delete_class,
     deleted_classes |-> am.new_class,
     renamed_classes |-> renamed_classes(am.rename_class),
     transferred_classes |-> transferred_classes(am.transfer_class)]

DurableObjectsMigrationOf(am) ==
    [new_classes |-> am.new_class,
     deleted_classes |-> am.delete_class,
     renamed_classes |-> renamed_classes(am.rename_class),
     transferred_classes |-> transferred_classes(am.transfer_class)]

is_migration_empty(m) ==
    /\ Len(m.new_classes) = 0
    /\ Len(m.deleted_classes) = 0
    /\ Len(m.renamed_classes) = 0
    /\ Len(m.transferred_classes) = 0

\* A buggy guard that forgets the new tag.
EmitsDescriptorNoNewTag(am, m) == ~is_migration_empty(m) \/ IsSome(am.old_tag)

\* The guard of the outer `if`.
EmitsDescriptor(am, m) == ~is_migration_empty(m) \/ IsSome(am.old_tag) \/ IsSome(am.new_tag)

\* A buggy wrapper that is built even around an empty migration.
MigrationFieldAlways(m) == Some([durable_objects |-> m])

\* The inner `if`: the Migration wrapper.
MigrationField(m) == IF ~is_migration_empty(m) THEN Some([durable_objects |-> m]) ELSE None

Unknown == [variant |-> "Unknown"]

\* A buggy descriptor whose two tags changed places.
AdhocTagsSwapped(am, migration) ==
    [script_tag |-> Unknown,
     provided_old_tag |-> am.new_tag,
     new_tag |-> am.old_tag,
     migration |-> migration]

\* A buggy descriptor that takes the script tag from the old tag.
AdhocTagFromOldTag(am, migration) ==
    [script_tag |-> IF IsSome(am.old_tag) THEN [variant |-> "HasTag"] ELSE Unknown,
     provided_old_tag |-> am.old_tag,
     new_tag |-> am.new_tag,
     migration |-> migration]

\* Migrations::Adhoc { .. }
Adhoc(am, migration) ==
    [script_tag |-> Unknown,
     provided_old_tag |-> am.old_tag,
     new_tag |-> am.new_tag,
     migration |-> migration]

Panicked == [status |-> "panicked", value |-> None]

Returned(v) == [status |-> "returned", value |-> v]

Pending == [status |-> "pending", value |-> None]

into_migrations(am) ==
    IF ChunkMismatch(am)
    THEN Panicked
    ELSE IF EmitsDescriptor(am, DurableObjectsMigrationOf(am))
         THEN Returned(Some(Adhoc(am, MigrationField(DurableObjectsMigrationOf(am)))))
         ELSE Returned(None)

AdhocMigrationOf(n, d, r, t, o, w) ==
    [new_class |-> n, delete_class |-> d, rename_class |-> r,
     transfer_class |-> t, old_tag |-> o, new_tag |-> w]

EmptyInput == AdhocMigrationOf(<<>>, <<>>, <<>>, <<>>, None, None)

\* The flag arities of the derive: one value per --new-class / --delete-class,
\* two per --rename-class, three per --transfer-class.
WellFormed(am) == Len(am.rename_class) % 2 = 0 /\ Len(am.transfer_class) % 3 = 0

\* Every value of the struct, whatever the lengths of its lists.
AnyInput(am) ==
    \E n \in SeqsUpTo(Names, MaxValues) :
      \E d \in SeqsUpTo(Names, MaxValues - Len(n)) :
        \E r \in SeqsUpTo(Names, MaxValues - Len(n) - Len(d)) :
          \E t \in SeqsUpTo(Names, MaxValues - Len(n) - Len(d) - Len(r)) :
            \E o \in Option(TagNames) :
              \E w \in Option(TagNames) :
                am = AdhocMigrationOf(n, d, r, t, o, w)

\* The values of the struct the command line parser produces.
ParsedInput(am) ==
    \E n \in SeqsUpTo(Names, MaxValues) :
      \E d \in SeqsUpTo(Names, MaxValues - Len(n)) :
        \E r \in {s \in SeqsUpTo(Names, MaxValues - Len(n) - Len(d)) : Len(s) % 2 = 0} :
          \E t \in {s \in SeqsUpTo(Names, MaxValues - Len(n) - Len(d) - Len(r)) : Len(s) % 3 = 0} :
            \E o \in Option(TagNames) :
              \E w \in Option(TagNames) :
                am = AdhocMigrationOf(n, d, r, t, o, w)

\* The call migration.into_migrations().
IntoMigrations ==
    /\ pc = "ready"
    /\ result' = into_migrations(input)
    /\ pc' = "done"
    /\ UNCHANGED <<input, srvVars>>

(***************************************************************************)
(* ServerConfig::new                                                       *)
(***************************************************************************)

\* IPv4 and IPv6 literals, the texts of the IpAddr values --ip accepts.
V4Literals == {"127.0.0.1", "127.0.0.2"}

V6Literals == {"::1"}

Ips == V4Literals \cup V6Literals

\* Host names, which the &str parameter of ServerConfig::new also admits.
HostNames == {"twoaddr"}

\* What the system's resolver may answer for a host name: nothing, or
\* addresses in the order they are to be tried.
Resolutions == {<<>>, <<"127.0.0.1", "127.0.0.2">>, <<"::1", "127.0.0.1">>}

\* Ports a caller may pass with --port; 0 asks the system for a free port.
Ports == {0, 8787, 8080}

\* Ports the system may hand out for a bind on port 0.
EphemeralPorts == {39421, 49152}

\* Texts of the io::Error a failing getsockname may carry.
OsErrors == {"No buffer space available (os error 105)", "Bad file descriptor (os error 9)"}

Protocols == {"Http", "Https"}

\* Hosts a caller may pass with --host; the last one is not a host.
Hosts == {"example.com", "https://tutorial.cloudflareworkers.com", "not a host"}

DefaultIp == "127.0.0.1"

DefaultPort == 8787

\* A buggy address that always uses the default ip.
AddrIgnoringIp(ip, port) == DefaultIp \o ":" \o ToString(port)

\* format!("{}:{}", ip, port)
Addr(ip, port) == ip \o ":" \o ToString(port)

\* The text of a SocketAddr: an IPv6 address is written in brackets.
SockAddr(ip, port) ==
    IF ip \in V6Literals
    THEN "[" \o ip \o "]:" \o ToString(port)
    ELSE ip \o ":" \o ToString(port)

Addrs == {SockAddr(i, p) : i \in Ips, p \in Ports}

\* The fixed text of the bind error; the source's backquotes around
\* wrangler dev are written as apostrophes here.
UnavailableSuffix == " is unavailable, try binding to another address with the --port and --ip flags, or stop other 'wrangler dev' processes."

\* failure::bail!("{} is unavailable, ...", &addr)
BindError(addr) == addr \o UnavailableSuffix

\* A buggy default that does not look at the upstream protocol.
DefaultHostHttpsOnly(upstream_protocol) == "https://tutorial.cloudflareworkers.com"

\* The match on upstream_protocol.
DefaultHost(upstream_protocol) ==
    IF upstream_protocol = "Http"
    THEN "http://tutorial.cloudflareworkers.com"
    ELSE "https://tutorial.cloudflareworkers.com"

\* The argument list of the Host::new call: the explicit host with
\* is_default = false, or the default host with is_default = true.
HostNewArgs(host, upstream_protocol) ==
    IF IsSome(host)
    THEN <<host[1], FALSE>>
    ELSE <<DefaultHost(upstream_protocol), TRUE>>

\* Host::new (src/commands/dev/server_config/host.rs): a host is built from
\* the string it is given, or the string is rejected.
HostNew(s, is_default) ==
    IF s = "not a host"
    THEN [ok |-> FALSE, host |-> None, message |-> Some("invalid host: " \o s)]
    ELSE [ok |-> TRUE, host |-> Some([url |-> s, is_default |-> is_default]), message |-> None]

SrvPending == [status |-> "pending", message |-> None, config |-> None]

SrvErr(msg) == [status |-> "err", message |-> Some(msg), config |-> None]

SrvOk(host, listening_address) ==
    [status |-> "ok", message |-> None,
     config |-> Some([host |-> host, listening_address |-> listening_address])]

NoArgs == [host |-> None, ip |-> None, port |-> None, upstream_protocol |-> "Http"]

QuietEnv ==
    [unavailable |-> {}, resolves |-> [n \in HostNames |-> <<>>],
     local_addr_error |-> None, ephemeral_port |-> 39421]

\* ToSocketAddrs for "ip:port": an IP literal stands for itself, a host
\* name for the addresses the resolver answers, in its order.
Resolve(e, ip) == IF ip \in HostNames THEN e.resolves[ip] ELSE <<ip>>

\* bind(2) succeeds unless the socket address is taken by another listener
\* or cannot be bound for another reason.
BindOk(e, sockaddr) == sockaddr \notin e.unavailable

\* The position in ips of the first address that can be bound, 0 if none.
FirstBindable(e, ips, port) ==
    IF \E i \in 1..Len(ips) : BindOk(e, SockAddr(ips[i], port))
    THEN CHOOSE i \in 1..Len(ips) :
             /\ BindOk(e, SockAddr(ips[i], port))
             /\ \A j \in 1..(i - 1) : ~BindOk(e, SockAddr(ips[j], port))
    ELSE 0

\* The bind(2) calls of one TcpListener::bind: the resolved addresses are
\* tried in turn up to the first that succeeds.
Attempted(e, ips, port) ==
    [i \in 1..(IF FirstBindable(e, ips, port) = 0 THEN Len(ips) ELSE FirstBindable(e, ips, port))
        |-> SockAddr(ips[i], port)]

\* socket.local_addr(): the address the listener is bound to, which for a
\* bind on port 0 carries the port the system chose.
LocalAddr(e, ip, port) == SockAddr(ip, IF port = 0 THEN e.ephemeral_port ELSE port)

\* The whole body of ServerConfig::new.  The listener is a temporary of the
\* match arm and is dropped there, so the environment is left as it was.
ServerConfigNew ==
    /\ srvPc = "ready"
    /\ srvPc' = "done"
    /\ LET ip == IF IsSome(args.ip) THEN args.ip[1] ELSE DefaultIp
           port == IF IsSome(args.port) THEN args.port[1] ELSE DefaultPort
           addr == Addr(ip, port)
           ips == Resolve(env, ip)
           bound == FirstBindable(env, ips, port)
           call == HostNewArgs(args.host, args.upstream_protocol)
           made == HostNew(call[1], call[2])
       IN /\ bindCalls' = Append(bindCalls, addr)
          /\ bindAttempts' = bindAttempts \o Attempted(env, ips, port)
          /\ IF bound = 0
             THEN /\ srvResult' = SrvErr(BindError(addr))
                  /\ hostNewCalls' = hostNewCalls
             ELSE IF IsSome(env.local_addr_error)
             THEN /\ srvResult' = SrvErr(env.local_addr_error[1])
                  /\ hostNewCalls' = hostNewCalls
             ELSE /\ hostNewCalls' = Append(hostNewCalls, call)
                  /\ srvResult' = IF made.ok
                                  THEN SrvOk(made.host[1], LocalAddr(env, ips[bound], port))
                                  ELSE SrvErr(made.message[1])
    /\ UNCHANGED <<args, env, migVars>>

(***************************************************************************)
(* Specifications                                                          *)
(***************************************************************************)

MigIdle == pc = "idle" /\ input = EmptyInput /\ result = Pending

SrvIdle ==
    /\ srvPc = "idle"
    /\ args = NoArgs
    /\ env = QuietEnv
    /\ bindCalls = <<>>
    /\ bindAttempts = <<>>
    /\ hostNewCalls = <<>>
    /\ srvResult = SrvPending

\* A publish command parsed by the command line schema.
Init ==
    /\ pc = "ready"
    /\ ParsedInput(input)
    /\ result = Pending
    /\ SrvIdle

Next == IntoMigrations

Spec == Init /\ [][Next]_vars

\* An AdhocMigration built without the schema's arity checks.
InitUnchecked ==
    /\ pc = "ready"
    /\ AnyInput(input)
    /\ result = Pending
    /\ SrvIdle

SpecUnchecked == InitUnchecked /\ [][Next]_vars

ServerStart ==
    /\ MigIdle
    /\ srvPc = "ready"
    /\ bindCalls = <<>>
    /\ bindAttempts = <<>>
    /\ hostNewCalls = <<>>
    /\ srvResult = SrvPending

\* A dev command about to resolve its server configuration: --ip is an
\* IpAddr, so the ip it passes on is the text of an IP literal.
InitServer ==
    /\ ServerStart
    /\ args \in [host : Option(Hosts), ip : Option(Ips), port : Option(Ports),
                 upstream_protocol : Protocols]
    /\ env \in [unavailable : SUBSET Addrs, resolves : {QuietEnv.resolves},
                local_addr_error : Option(OsErrors), ephemeral_port : EphemeralPorts]

\* A caller that passes a host name as ip.
InitServerByName ==
    /\ ServerStart
    /\ args \in [host : Option(Hosts), ip : {Some(n) : n \in HostNames}, port : Option(Ports),
                 upstream_protocol : Protocols]
    /\ env \in [unavailable : SUBSET Addrs, resolves : [HostNames -> Resolutions],
                local_addr_error : Option(OsErrors), ephemeral_port : EphemeralPorts]

NextServer == ServerConfigNew

SpecServer == InitServer /\ [][NextServer]_vars

SpecServerByName == InitServerByName /\ [][NextServer]_vars

(***************************************************************************)
(* Properties of into_migrations                                           *)
(***************************************************************************)

Done == pc = "done"

HasDescriptor == result.status = "returned" /\ IsSome(result.value)

Descriptor == result.value[1]

HasMigration == HasDescriptor /\ IsSome(Descriptor.migration)

Compiled == Descriptor.migration[1].durable_objects

AllListsEmpty ==
    /\ input.new_class = <<>>
    /\ input.delete_class = <<>>
    /\ input.rename_class = <<>>
    /\ input.transfer_class = <<>>

\* C1: for every well-formed input the call returns, and it returns a
\* descriptor exactly when one of the four lists is non-empty or one of the
\* two tags is present; with everything empty and absent it returns None.
DescriptorIffRequested ==
    (Done /\ WellFormed(input)) =>
        /\ result.status = "returned"
        /\ IsSome(result.value) <=>
               (~AllListsEmpty \/ input.old_tag # None \/ input.new_tag # None)
        /\ (AllListsEmpty /\ input.old_tag = None /\ input.new_tag = None)
               => result.value = None

DescriptorIffRequestedWitness ==
    /\ Done
    /\ AllListsEmpty
    /\ input.old_tag = None
    /\ input.new_tag = <<"t2">>
    /\ HasDescriptor

\* C2: an even-length rename list R compiles to Len(R) / 2 RenameClass
\* entries, the i-th one pairing R[2i-1] (from) with R[2i] (to), counting
\* from 1.
RenamePairsInOrder ==
    (Done /\ Len(input.rename_class) % 2 = 0 /\ Len(input.rename_class) > 0) =>
        /\ HasMigration
        /\ Len(Compiled.renamed_classes) * 2 = Len(input.rename_class)
        /\ \A i \in 1..Len(Compiled.renamed_classes) :
               /\ Compiled.renamed_classes[i].from = input.rename_class[2 * i - 1]
               /\ Compiled.renamed_classes[i].to = input.rename_class[2 * i]

RenamePairsInOrderWitness ==
    /\ Done
    /\ input.rename_class = <<"A", "B", "B", "A">>
    /\ HasMigration
    /\ Len(Compiled.renamed_classes) = 2

\* C3: a transfer list T whose length is a multiple of 3 compiles to
\* Len(T) / 3 TransferClass entries, the i-th one taking from_script, from
\* and to from T[3i-2], T[3i-1] and T[3i], counting from 1.
TransferTriplesInOrder ==
    (Done /\ Len(input.transfer_class) % 3 = 0 /\ Len(input.transfer_class) > 0) =>
        /\ HasMigration
        /\ Len(Compiled.transferred_classes) * 3 = Len(input.transfer_class)
        /\ \A i \in 1..Len(Compiled.transferred_classes) :
               /\ Compiled.transferred_classes[i].from_script = input.transfer_class[3 * i - 2]
               /\ Compiled.transferred_classes[i].from = input.transfer_class[3 * i - 1]
               /\ Compiled.transferred_classes[i].to = input.transfer_class[3 * i]

TransferTriplesInOrderWitness ==
    /\ Done
    /\ input.transfer_class = <<"A", "B", "B", "B", "A", "A">>
    /\ HasMigration
    /\ Len(Compiled.transferred_classes) = 2

\* C4: given a rename list of odd length or a transfer list whose length is
\* not a multiple of 3 the call aborts, and no returned migration is built
\* from fewer strings than the rename and transfer lists supplied.
MisalignedListsAbort ==
    Done =>
        /\ ~WellFormed(input) => result.status = "panicked"
        /\ HasMigration =>
               /\ Len(Compiled.renamed_classes) * 2 = Len(input.rename_class)
               /\ Len(Compiled.transferred_classes) * 3 = Len(input.transfer_class)

\* C5: a returned descriptor has a migration exactly when one of the four
\* class lists is non-empty, the wrapped migration is never empty, and tags
\* alone give a descriptor without a migration.
MigrationIffNonEmpty ==
    (Done /\ HasDescriptor) =>
        /\ IsSome(Descriptor.migration) <=> ~AllListsEmpty
        /\ IsSome(Descriptor.migration) =>
               \/ Compiled.new_classes # <<>>
               \/ Compiled.deleted_classes # <<>>
               \/ Compiled.renamed_classes # <<>>
               \/ Compiled.transferred_classes # <<>>

MigrationIffNonEmptyWitness ==
    /\ Done
    /\ AllListsEmpty
    /\ input.old_tag = <<"t1">>
    /\ HasDescriptor
    /\ Descriptor.migration = None

\* C6: every returned descriptor has script_tag Unknown and carries the
\* input's old_tag in provided_old_tag and the input's new_tag in new_tag.
TagsPassedThrough ==
    (Done /\ HasDescriptor) =>
        /\ Descriptor.script_tag = [variant |-> "Unknown"]
        /\ Descriptor.provided_old_tag = input.old_tag
        /\ Descriptor.new_tag = input.new_tag

TagsPassedThroughWitness ==
    /\ Done
    /\ HasDescriptor
    /\ input.old_tag = <<"t1">>
    /\ input.new_tag = None
    /\ input.new_class = <<"A">>
    /\ Descriptor.provided_old_tag = <<"t1">>

\* C7, as claimed: a returned descriptor whose script_tag is Unknown comes
\* from an input without old_tag.
UnknownOnlyWithoutOldTag ==
    (Done /\ HasDescriptor /\ Descriptor.script_tag.variant = "Unknown") =>
        input.old_tag = None

\* C7, amended: a returned descriptor has script_tag Unknown whether or not
\* the caller supplied old_tag; a supplied old_tag does not select the
\* script tag and is carried in provided_old_tag.
UnknownWhateverOldTag ==
    (Done /\ HasDescriptor) =>
        /\ Descriptor.script_tag.variant = "Unknown"
        /\ input.old_tag # None => Descriptor.provided_old_tag = input.old_tag

UnknownWhateverOldTagWitness ==
    /\ Done
    /\ HasDescriptor
    /\ input.old_tag = <<"t2">>
    /\ Descriptor.script_tag.variant = "Unknown"

\* C8: the migration of a returned descriptor holds the input's new-class
\* list as new_classes and its delete-class list as deleted_classes, element
\* for element.
ClassListsCopied ==
    (Done /\ HasMigration) =>
        /\ Len(Compiled.new_classes) = Len(input.new_class)
        /\ \A i \in 1..Len(input.new_class) : Compiled.new_classes[i] = input.new_class[i]
        /\ Len(Compiled.deleted_classes) = Len(input.delete_class)
        /\ \A i \in 1..Len(input.delete_class) : Compiled.deleted_classes[i] = input.delete_class[i]

ClassListsCopiedWitness ==
    /\ Done
    /\ HasMigration
    /\ input.new_class = <<"B", "B", "A">>
    /\ input.delete_class = <<"A", "B">>
    /\ Compiled.new_classes = <<"B", "B", "A">>

(***************************************************************************)
(* Properties of ServerConfig::new                                         *)
(***************************************************************************)

SrvDone == srvPc = "done"

RequestedIp == IF args.ip = None THEN "127.0.0.1" ELSE args.ip[1]

RequestedPort == IF args.port = None THEN 8787 ELSE args.port[1]

RequestedAddr == RequestedIp \o ":" \o ToString(RequestedPort)

RequestedSockAddr ==
    IF RequestedIp = "::1"
    THEN "[::1]:" \o ToString(RequestedPort)
    ELSE RequestedAddr

NothingBound == \A i \in 1..Len(bindAttempts) : bindAttempts[i] \in env.unavailable

\* C9: the call binds once, on (ip or 127.0.0.1, port or 8787): one
\* TcpListener::bind on that text and one bind attempt on that socket
\* address; when the address cannot be bound the result is an error whose
\* message starts with the address requested, and no ServerConfig.
BindFailureIsFatal ==
    SrvDone =>
        /\ bindCalls = <<RequestedAddr>>
        /\ bindAttempts = <<RequestedSockAddr>>
        /\ RequestedSockAddr \in env.unavailable =>
               /\ srvResult.status = "err"
               /\ srvResult.config = None
               /\ srvResult.message = <<bindCalls[1] \o UnavailableSuffix>>

BindFailureIsFatalWitness ==
    /\ SrvDone
    /\ args.ip = <<"127.0.0.2">>
    /\ args.port = None
    /\ "127.0.0.2:8787" \in env.unavailable
    /\ "127.0.0.1:8787" \notin env.unavailable
    /\ srvResult.status = "err"

\* C10: without an explicit host a successful call yields the tutorial host
\* of the upstream protocol's scheme; with an explicit host it yields that
\* host whatever the protocol; and the host is resolved only after the bind
\* has succeeded, so a bind failure is the error reported whatever the host.
HostResolvedAfterBind ==
    SrvDone =>
        /\ (srvResult.status = "ok" /\ args.host = None /\ args.upstream_protocol = "Http")
               => srvResult.config[1].host.url = "http://tutorial.cloudflareworkers.com"
        /\ (srvResult.status = "ok" /\ args.host = None /\ args.upstream_protocol = "Https")
               => srvResult.config[1].host.url = "https://tutorial.cloudflareworkers.com"
        /\ (srvResult.status = "ok" /\ args.host # None)
               => srvResult.config[1].host.url = args.host[1]
        /\ NothingBound =>
               /\ hostNewCalls = <<>>
               /\ srvResult.message = <<RequestedAddr \o UnavailableSuffix>>
        /\ hostNewCalls # <<>> => ~NothingBound

HostResolvedAfterBindWitness ==
    /\ SrvDone
    /\ args.host = None
    /\ args.upstream_protocol = "Http"
    /\ srvResult.status = "ok"
    /\ srvResult.config[1].host.url = "http://tutorial.cloudflareworkers.com"

\* A host name as ip: the one TcpListener::bind tries the resolved addresses
\* in turn, the call fails only when none of them can be bound, and the
\* address stored is the one that was bound.
ByNameTriesEachAddress ==
    SrvDone =>
        /\ bindCalls = <<RequestedAddr>>
        /\ Len(bindAttempts) = Len(env.resolves[args.ip[1]]) \/ ~NothingBound
        /\ \A i \in 1..(Len(bindAttempts) - 1) : bindAttempts[i] \in env.unavailable
        /\ NothingBound <=> srvResult.message = <<RequestedAddr \o UnavailableSuffix>>
        /\ (srvResult.status = "ok" /\ RequestedPort # 0) =>
               srvResult.config[1].listening_address = bindAttempts[Len(bindAttempts)]

ByNameSecondAddressBound ==
    /\ SrvDone
    /\ bindAttempts = <<"127.0.0.1:8787", "127.0.0.2:8787">>
    /\ srvResult.status = "ok"
    /\ srvResult.config[1].listening_address = "127.0.0.2:8787"

====
